---- MODULE Spec2Model ----
(***************************************************************************)
(* Model of tsc::ThreadSafeContainer<T>                                    *)
(* (lib/include/tsc/thread_safe_container.hpp): a bounded FIFO queue       *)
(* guarded by one mutex and two condition variables, used by several       *)
(* threads.                                                                *)
(*                                                                         *)
(* A thread is idle, inside a critical section ("body": it owns mutex_),   *)
(* suspended inside condition_variable::wait ("waiting": it is in the wait *)
(* set of not_full_ or not_empty_), or notified and blocked re-acquiring   *)
(* the mutex inside wait ("woken").  Everything a member function does     *)
(* between acquiring the mutex and releasing it (by return, by throw or by *)
(* suspending in wait) is one step.                                        *)
(***************************************************************************)
EXTENDS Naturals, Integers, Sequences, FiniteSets, TLC

\* ---------------------------------------------------------------- bounds
NumThreads == 3
MaxCapacity == 2
MaxInserts == 4
MaxItem == 2

Threads == 1..NumThreads
Items == 1..MaxItem
Capacities == 1..MaxCapacity

Free == 0
NoItem == 0

AddOps == {"tryAdd", "waitAdd"}
RemoveOps == {"tryRemove", "waitRemove"}
WaitOps == {"waitAdd", "waitRemove"}
ControlOps == {"shutdown", "clear"}
AllOps == AddOps \cup RemoveOps \cup ControlOps
QueryOps == {"size", "empty", "full", "isActive"}
DtorShutdown == "~ThreadSafeContainer/shutdown"
DtorClear == "~ThreadSafeContainer/clear"

VARIABLES
  max_size_,    \* const size_type max_size_
  queue_,       \* std::queue<T> queue_, front first
  is_active_,   \* bool is_active_
  mutex_,       \* owner of mutex_, or Free
  not_full_,    \* threads suspended on not_full_
  not_empty_,   \* threads suspended on not_empty_
  pc,           \* per thread: "idle", "body", "waiting", "woken", and
                \* "clearing" (in the destructor, between shutdown and clear)
  op,           \* per thread: the member function it is executing
  arg,          \* per thread: the item passed to tryAdd / waitAdd
  last,         \* outcome of the member function that returned last
  inserted,     \* items pushed so far, in push order
  removed,      \* items handed to callers so far, in pop order
  discarded     \* items popped by clear() so far

vars == <<max_size_, queue_, is_active_, mutex_, not_full_, not_empty_,
          pc, op, arg, last, inserted, removed, discarded>>

\* ------------------------------------------------- condition variables
\* notify_one: no effect without waiters, else one waiter chosen by the
\* implementation leaves the wait set.  The result is the set of possible
\* sets of woken threads.
NotifyOne(cv) == IF cv = {} THEN {{}} ELSE {{w} : w \in cv}

\* notify_all: every waiter leaves the wait set.
NotifyAll(cv) == {cv}

\* No notification issued.
NoNotify == {{}}

\* ------------------------------------------------------ queue primitives
PushTwice(q, x) == Append(Append(q, x), x)

PushFront(q, x) == <<x>> \o q

Push(q, x) == Append(q, x)

Back(q) == q[Len(q)]

Front(q) == Head(q)

PopBack(q) == SubSeq(q, 1, Len(q) - 1)

Pop(q) == Tail(q)

\* ------------------------------------------------------ code conditions
\* tryAdd: queue_.size() == max_size_
IsFullOffByOne == Len(queue_) > max_size_

IsFull == Len(queue_) = max_size_

\* tryRemove / waitRemove: queue_.empty()
IsEmpty == queue_ = <<>>

\* waitAdd: predicate of not_full_.wait
\* as WaitAddPred, but without the test of is_active_
WaitAddPredIgnoresShutdown == Len(queue_) < max_size_

WaitAddPred == Len(queue_) < max_size_ \/ ~is_active_

\* waitRemove: predicate of not_empty_.wait
WaitRemovePred == ~IsEmpty \/ ~is_active_

\* the if (!is_active_) throw checks of the four operations
ThrowsOnlyWhenDrained == ~is_active_ /\ IsEmpty

ThrowsOnlyWhenFull == ~is_active_ /\ IsFull

NeverThrows == FALSE

TryAddThrows == ~is_active_

WaitAddThrows == ~is_active_

TryRemoveThrows == ~is_active_

WaitRemoveThrows == ~is_active_

\* notifications after a push and after a pop (evaluated on the new queue);
\* max_size_ >= 1 in every initial state, so the unsigned max_size_ - 1 does
\* not wrap
\* as NotifyAfterPush, but no push notifies
NotifySkippedAfterPush(q) == NoNotify

\* as NotifyAfterPush, but after every push
NotifyAfterEveryPush(q) == NotifyOne(not_empty_)

NotifyAfterPush(q) == IF Len(q) = 1 THEN NotifyOne(not_empty_) ELSE NoNotify

NotifyAfterPop(q) ==
  IF Len(q) = max_size_ - 1 THEN NotifyOne(not_full_) ELSE NoNotify

\* shutdown: is_active_ = false
ShutdownToggles == ~is_active_

ShutdownActive == FALSE

\* clear: if (!is_active_)
ClearAlways == TRUE

ClearEnabled == ~is_active_

\* clear: while (!queue_.empty()) queue_.pop()
ClearedOnce(q) == IF q = <<>> THEN q ELSE Pop(q)

Cleared(q) == <<>>

\* lock_guard / unique_lock constructor and the re-lock inside wait: blocks
\* until the mutex is free
MutexIgnored == TRUE

MutexAvailable == mutex_ = Free

\* notifications of shutdown()
ShutdownNotifyNotEmptyOne == NotifyOne(not_empty_)

ShutdownNotifyNotEmpty == NotifyAll(not_empty_)

ShutdownNotifyNotFullOne == NotifyOne(not_full_)

ShutdownNotifyNotFull == NotifyAll(not_full_)

\* ------------------------------------------------------------- helpers
\* pc after the threads in W were notified
Wake(W) == [u \in Threads |-> IF u \in W THEN "woken" ELSE pc[u]]

InFlightAdds == {u \in Threads : op[u] \in AddOps}

\* t leaves its member function with outcome r (and item x), releasing the
\* mutex; the threads in W were notified inside the critical section.
Return(t, W, r, x) ==
  /\ pc' = [Wake(W) EXCEPT ![t] = "idle"]
  /\ last' = [by |-> t, op |-> op[t], ret |-> r, out |-> x]
  /\ op' = [op EXCEPT ![t] = "none"]
  /\ arg' = [arg EXCEPT ![t] = NoItem]
  /\ mutex_' = Free

\* as Throw, but the mutex stays locked
ThrowKeepsLock(t) ==
  /\ pc' = [pc EXCEPT ![t] = "idle"]
  /\ last' = [by |-> t, op |-> op[t], ret |-> "throw", out |-> NoItem]
  /\ op' = [op EXCEPT ![t] = "none"]
  /\ arg' = [arg EXCEPT ![t] = NoItem]
  /\ UNCHANGED <<max_size_, queue_, is_active_, mutex_, not_full_,
                 not_empty_, inserted, removed, discarded>>

\* t throws ShutdownException: nothing but the mutex and t's position changes
Throw(t) ==
  /\ Return(t, {}, "throw", NoItem)
  /\ UNCHANGED <<max_size_, queue_, is_active_, not_full_, not_empty_,
                 inserted, removed, discarded>>

\* ---------------------------------------------------------------- Init
\* The state after the constructor, for a positive capacity.
Init ==
  /\ max_size_ \in Capacities
  /\ queue_ = <<>>
  /\ is_active_ = TRUE
  /\ mutex_ = Free
  /\ not_full_ = {}
  /\ not_empty_ = {}
  /\ pc = [t \in Threads |-> "idle"]
  /\ op = [t \in Threads |-> "none"]
  /\ arg = [t \in Threads |-> NoItem]
  /\ last = [by |-> 0, op |-> "none", ret |-> "none", out |-> NoItem]
  /\ inserted = <<>>
  /\ removed = <<>>
  /\ discarded = <<>>

\* ------------------------------------------------------------- actions
\* Thread t calls member function o with argument x and acquires mutex_
\* (the lock_guard / unique_lock at the top of every member function).  A
\* call that is blocked on the mutex has had no effect yet, so calling and
\* acquiring are one step.  MaxInserts caps the number of add calls.
Lock(t, o, x) ==
  /\ pc[t] = "idle"
  /\ MutexAvailable
  /\ IF o \in AddOps
       THEN /\ x \in Items
            /\ Len(inserted) + Cardinality(InFlightAdds) < MaxInserts
       ELSE x = NoItem
  /\ pc' = [pc EXCEPT ![t] = "body"]
  /\ op' = [op EXCEPT ![t] = o]
  /\ arg' = [arg EXCEPT ![t] = x]
  /\ mutex_' = t
  /\ UNCHANGED <<max_size_, queue_, is_active_, not_full_, not_empty_, last,
                 inserted, removed, discarded>>

\* as WaitUnlocked, but the suspended thread keeps the mutex
WaitKeepsLock(t) == t

\* condition_variable::wait unlocks the mutex while the thread is suspended
WaitUnlocked(t) == Free

tryAdd(t) ==
  /\ pc[t] = "body" /\ op[t] = "tryAdd"
  /\ IF TryAddThrows THEN Throw(t)
     ELSE IF IsFull
       THEN /\ Return(t, {}, "false", NoItem)
            /\ UNCHANGED <<max_size_, queue_, is_active_, not_full_,
                           not_empty_, inserted, removed, discarded>>
       ELSE /\ queue_' = Push(queue_, arg[t])
            /\ inserted' = Append(inserted, arg[t])
            /\ \E W \in NotifyAfterPush(queue_') :
                 /\ not_empty_' = not_empty_ \ W
                 /\ Return(t, W, "true", NoItem)
            /\ UNCHANGED <<max_size_, is_active_, not_full_, removed,
                           discarded>>

waitAdd(t) ==
  /\ pc[t] = "body" /\ op[t] = "waitAdd"
  /\ IF ~WaitAddPred
       THEN /\ not_full_' = not_full_ \cup {t}
            /\ pc' = [pc EXCEPT ![t] = "waiting"]
            /\ mutex_' = WaitUnlocked(t)
            /\ UNCHANGED <<max_size_, queue_, is_active_, not_empty_, op, arg,
                           last, inserted, removed, discarded>>
     ELSE IF WaitAddThrows THEN Throw(t)
     ELSE /\ queue_' = Push(queue_, arg[t])
          /\ inserted' = Append(inserted, arg[t])
          /\ \E W \in NotifyAfterPush(queue_') :
               /\ not_empty_' = not_empty_ \ W
               /\ Return(t, W, "void", NoItem)
          /\ UNCHANGED <<max_size_, is_active_, not_full_, removed,
                         discarded>>

tryRemove(t) ==
  /\ pc[t] = "body" /\ op[t] = "tryRemove"
  /\ IF TryRemoveThrows THEN Throw(t)
     ELSE IF IsEmpty
       THEN /\ Return(t, {}, "false", NoItem)
            /\ UNCHANGED <<max_size_, queue_, is_active_, not_full_,
                           not_empty_, inserted, removed, discarded>>
       ELSE /\ queue_' = Pop(queue_)
            /\ removed' = Append(removed, Front(queue_))
            /\ \E W \in NotifyAfterPop(queue_') :
                 /\ not_full_' = not_full_ \ W
                 /\ Return(t, W, "true", Front(queue_))
            /\ UNCHANGED <<max_size_, is_active_, not_empty_, inserted,
                           discarded>>

waitRemove(t) ==
  /\ pc[t] = "body" /\ op[t] = "waitRemove"
  /\ IF ~WaitRemovePred
       THEN /\ not_empty_' = not_empty_ \cup {t}
            /\ pc' = [pc EXCEPT ![t] = "waiting"]
            /\ mutex_' = WaitUnlocked(t)
            /\ UNCHANGED <<max_size_, queue_, is_active_, not_full_, op, arg,
                           last, inserted, removed, discarded>>
     ELSE IF WaitRemoveThrows THEN Throw(t)
     ELSE /\ queue_' = Pop(queue_)
          /\ removed' = Append(removed, Front(queue_))
          /\ \E W \in NotifyAfterPop(queue_') :
               /\ not_full_' = not_full_ \ W
               /\ Return(t, W, "void", Front(queue_))
          /\ UNCHANGED <<max_size_, is_active_, not_empty_, inserted,
                         discarded>>

shutdown(t) ==
  /\ pc[t] = "body" /\ op[t] = "shutdown"
  /\ is_active_' = ShutdownActive
  /\ \E WE \in ShutdownNotifyNotEmpty : \E WF \in ShutdownNotifyNotFull :
       /\ not_empty_' = not_empty_ \ WE
       /\ not_full_' = not_full_ \ WF
       /\ Return(t, WE \cup WF, "void", NoItem)
  /\ UNCHANGED <<max_size_, queue_, inserted, removed, discarded>>

clear(t) ==
  /\ pc[t] = "body" /\ op[t] = "clear"
  /\ IF ClearEnabled
       THEN /\ queue_' = Cleared(queue_)
            /\ discarded' =
                 discarded \o SubSeq(queue_, 1, Len(queue_) - Len(queue_'))
       ELSE UNCHANGED <<queue_, discarded>>
  /\ Return(t, {}, "void", NoItem)
  /\ UNCHANGED <<max_size_, is_active_, not_full_, not_empty_, inserted,
                 removed>>

\* A waiter leaves condition_variable::wait without having been notified.
SpuriousWakeup(t) ==
  /\ pc[t] = "waiting"
  /\ not_full_' = not_full_ \ {t}
  /\ not_empty_' = not_empty_ \ {t}
  /\ pc' = [pc EXCEPT ![t] = "woken"]
  /\ UNCHANGED <<max_size_, queue_, is_active_, mutex_, op, arg, last,
                 inserted, removed, discarded>>

\* as Reacquire, but the woken waiter does not evaluate its predicate again:
\* it pushes or pops at once and returns
ReacquireUnchecked(t) ==
  /\ pc[t] = "woken"
  /\ MutexAvailable
  /\ IF op[t] = "waitAdd"
       THEN /\ queue_' = Push(queue_, arg[t])
            /\ inserted' = Append(inserted, arg[t])
            /\ removed' = removed
       ELSE /\ queue_' = IF queue_ = <<>> THEN queue_ ELSE Pop(queue_)
            /\ removed' = Append(removed,
                                 IF queue_ = <<>> THEN NoItem
                                                  ELSE Front(queue_))
            /\ inserted' = inserted
  /\ Return(t, {}, "void", NoItem)
  /\ UNCHANGED <<max_size_, is_active_, not_full_, not_empty_, discarded>>

\* A woken waiter re-acquires the mutex inside wait and re-evaluates its
\* predicate (the body of its operation runs again from the wait).
Reacquire(t) ==
  /\ pc[t] = "woken"
  /\ MutexAvailable
  /\ pc' = [pc EXCEPT ![t] = "body"]
  /\ mutex_' = t
  /\ UNCHANGED <<max_size_, queue_, is_active_, not_full_, not_empty_, op,
                 arg, last, inserted, removed, discarded>>

\* The pure queries: each locks, reads and returns.
BoolRet(b) == IF b THEN "true" ELSE "false"

Query(t, r, x) ==
  /\ Return(t, {}, r, x)
  /\ UNCHANGED <<max_size_, queue_, is_active_, not_full_, not_empty_,
                 inserted, removed, discarded>>

\* as SizeValue, but the capacity instead of the number of items
SizeCapacity == max_size_

SizeValue == Len(queue_)

size(t) ==
  /\ pc[t] = "body" /\ op[t] = "size"
  /\ Query(t, "value", SizeValue)

empty(t) ==
  /\ pc[t] = "body" /\ op[t] = "empty"
  /\ Query(t, BoolRet(IsEmpty), NoItem)

full(t) ==
  /\ pc[t] = "body" /\ op[t] = "full"
  /\ Query(t, BoolRet(Len(queue_) = max_size_), NoItem)

\* as IsActiveValue, but the answer of a queue that was never shut down
IsActiveStale == TRUE

IsActiveValue == is_active_

isActive(t) ==
  /\ pc[t] = "body" /\ op[t] = "isActive"
  /\ Query(t, BoolRet(IsActiveValue), NoItem)

\* The destructor calls shutdown() and then clear(); each locks the mutex on
\* its own, so other threads may run between the two.
\* as destructorShutdown, but the destructor does not shut the queue down
destructorSkipsShutdown(t) ==
  /\ pc[t] = "body" /\ op[t] = DtorShutdown
  /\ pc' = [pc EXCEPT ![t] = "clearing"]
  /\ mutex_' = Free
  /\ UNCHANGED <<max_size_, queue_, is_active_, not_full_, not_empty_, op,
                 arg, last, inserted, removed, discarded>>

destructorShutdown(t) ==
  /\ pc[t] = "body" /\ op[t] = DtorShutdown
  /\ is_active_' = ShutdownActive
  /\ \E WE \in ShutdownNotifyNotEmpty : \E WF \in ShutdownNotifyNotFull :
       /\ not_empty_' = not_empty_ \ WE
       /\ not_full_' = not_full_ \ WF
       /\ pc' = [Wake(WE \cup WF) EXCEPT ![t] = "clearing"]
  /\ mutex_' = Free
  /\ UNCHANGED <<max_size_, queue_, op, arg, last, inserted, removed,
                 discarded>>

destructorRelock(t) ==
  /\ pc[t] = "clearing"
  /\ MutexAvailable
  /\ pc' = [pc EXCEPT ![t] = "body"]
  /\ op' = [op EXCEPT ![t] = DtorClear]
  /\ mutex_' = t
  /\ UNCHANGED <<max_size_, queue_, is_active_, not_full_, not_empty_, arg,
                 last, inserted, removed, discarded>>

destructorClear(t) ==
  /\ pc[t] = "body" /\ op[t] = DtorClear
  /\ IF ClearEnabled
       THEN /\ queue_' = Cleared(queue_)
            /\ discarded' =
                 discarded \o SubSeq(queue_, 1, Len(queue_) - Len(queue_'))
       ELSE UNCHANGED <<queue_, discarded>>
  /\ Return(t, {}, "void", NoItem)
  /\ UNCHANGED <<max_size_, is_active_, not_full_, not_empty_, inserted,
                 removed>>

\* ------------------------------------------------------ specifications
\* No operation reads the value of an item: where only the control flow, the
\* buffer length and the wait sets matter, every item has the same value.
PlainItems == {1}

\* Any thread may call any operation.
Next ==
  \/ \E t \in Threads : \E o \in AllOps : \E x \in PlainItems \cup {NoItem} :
       Lock(t, o, x)
  \/ \E t \in Threads : tryAdd(t)
  \/ \E t \in Threads : waitAdd(t)
  \/ \E t \in Threads : tryRemove(t)
  \/ \E t \in Threads : waitRemove(t)
  \/ \E t \in Threads : shutdown(t)
  \/ \E t \in Threads : clear(t)
  \/ \E t \in Threads : SpuriousWakeup(t)
  \/ \E t \in Threads : Reacquire(t)

Spec == Init /\ [][Next]_vars

TypeOK ==
  /\ max_size_ \in Capacities
  /\ queue_ \in Seq(Items)
  /\ is_active_ \in BOOLEAN
  /\ mutex_ \in Threads \cup {Free}
  /\ not_full_ \subseteq Threads
  /\ not_empty_ \subseteq Threads
  /\ pc \in [Threads -> {"idle", "body", "waiting", "woken", "clearing"}]
  /\ op \in [Threads ->
              AllOps \cup QueryOps \cup {DtorShutdown, DtorClear, "none"}]
  /\ arg \in [Threads -> Items \cup {NoItem}]

\* Single producer (thread 1), single consumer (thread 2); the remaining
\* threads only coordinate (shutdown, clear).  The producer inserts items of
\* different values.
Producer == 1
Consumer == 2
Controllers == Threads \ {Producer, Consumer}

SpscNext ==
  \/ \E o \in AddOps : \E x \in Items : Lock(Producer, o, x)
  \/ \E o \in RemoveOps : Lock(Consumer, o, NoItem)
  \/ \E t \in Controllers : \E o \in ControlOps : Lock(t, o, NoItem)
  \/ tryAdd(Producer)
  \/ waitAdd(Producer)
  \/ tryRemove(Consumer)
  \/ waitRemove(Consumer)
  \/ \E t \in Controllers : shutdown(t)
  \/ \E t \in Controllers : clear(t)
  \/ \E t \in Threads : SpuriousWakeup(t)
  \/ \E t \in Threads : Reacquire(t)

SpscSpec == Init /\ [][SpscNext]_vars

\* Blocking operations and shutdown only, with the scheduling the claims
\* about termination rely on: a thread inside a critical section keeps
\* running (WF), and a thread blocked on the mutex inside wait gets the
\* mutex if it is free again and again (SF).  A thread is never obliged to
\* call an operation, and a spurious wakeup is never obliged to happen.
BlockingOps == WaitOps \cup {"shutdown"}

BlockingNext ==
  \/ \E t \in Threads : \E o \in BlockingOps :
       \E x \in PlainItems \cup {NoItem} : Lock(t, o, x)
  \/ \E t \in Threads : waitAdd(t)
  \/ \E t \in Threads : waitRemove(t)
  \/ \E t \in Threads : shutdown(t)
  \/ \E t \in Threads : SpuriousWakeup(t)
  \/ \E t \in Threads : Reacquire(t)

Fairness ==
  /\ WF_vars(\E t \in Threads : waitAdd(t) \/ waitRemove(t) \/ shutdown(t))
  /\ \A t \in Threads : SF_vars(Reacquire(t))

FairSpec == Init /\ [][BlockingNext]_vars /\ Fairness

\* Any thread may call any operation, the pure queries included.
QueryNext ==
  \/ Next
  \/ \E t \in Threads : \E o \in QueryOps : Lock(t, o, NoItem)
  \/ \E t \in Threads : size(t)
  \/ \E t \in Threads : empty(t)
  \/ \E t \in Threads : full(t)
  \/ \E t \in Threads : isActive(t)

QuerySpec == Init /\ [][QueryNext]_vars

\* Any thread may call any operation until the container is destroyed; the
\* destructor runs once, at any moment, also while threads are suspended.
\* Nothing touches the container once the destructor has returned.
Destroyed == last.op = DtorClear

DestructorRunning == \E u \in Threads : op[u] \in {DtorShutdown, DtorClear}

DtorNext ==
  \/ ~Destroyed /\ Next
  \/ \E t \in Threads :
       ~Destroyed /\ ~DestructorRunning /\ Lock(t, DtorShutdown, NoItem)
  \/ \E t \in Threads : destructorShutdown(t)
  \/ \E t \in Threads : destructorRelock(t)
  \/ \E t \in Threads : destructorClear(t)

DtorSpec == Init /\ [][DtorNext]_vars

\* ------------------------------------------------------------- claims
\* The step in which thread t leaves the critical section it is in.
Leaves(t) == pc[t] = "body" /\ pc'[t] # "body"

Thrown(t, o) == [by |-> t, op |-> o, ret |-> "throw", out |-> NoItem]

\* C1: in every reachable state the buffer length is between 0 and the
\* capacity.
Bounded == Len(queue_) >= 0 /\ Len(queue_) <= max_size_

\* A full buffer with a producer suspended in waitAdd.
BoundedWitness == Len(queue_) = max_size_ /\ not_full_ # {}

\* C2: with one producer and one consumer, as long as clear has discarded
\* nothing, the removed items followed by the buffer content are the
\* inserted items, in insertion order.
Fifo == discarded = <<>> => removed \o queue_ = inserted

\* Two different items were delivered in order and a third is buffered.
FifoWitness ==
  /\ discarded = <<>>
  /\ Len(removed) >= 2
  /\ removed[1] # removed[2]
  /\ queue_ # <<>>

\* C3: no state is reachable in which the queue is active, the buffer is
\* non-empty, a thread is suspended on not_empty_, nobody is inside the
\* monitor and no woken consumer is on its way to the buffer.
NoLostWakeupConsumer ==
  ~ /\ is_active_
    /\ queue_ # <<>>
    /\ not_empty_ # {}
    /\ mutex_ = Free
    /\ \A u \in Threads : ~(pc[u] = "woken" /\ op[u] = "waitRemove")

\* C4: no state is reachable in which the queue is active, the buffer has
\* free space, a thread is suspended on not_full_, nobody is inside the
\* monitor and no woken producer is on its way to the buffer.
NoLostWakeupProducer ==
  ~ /\ is_active_
    /\ Len(queue_) < max_size_
    /\ not_full_ # {}
    /\ mutex_ = Free
    /\ \A u \in Threads : ~(pc[u] = "woken" /\ op[u] = "waitAdd")

\* C7: an add or remove operation that runs its critical section on a
\* shut-down queue throws ShutdownException without suspending, whatever
\* the buffer holds, and leaves the buffer as it was.
OpsAfterShutdownThrow ==
  [][\A t \in Threads :
       (Leaves(t) /\ op[t] \in AddOps \cup RemoveOps /\ ~is_active_)
         => /\ pc'[t] = "idle"
            /\ last' = Thrown(t, op[t])
            /\ queue_' = queue_]_vars

\* An operation threw on a shut-down, partly filled buffer.
OpsAfterShutdownThrowWitness ==
  /\ ~is_active_
  /\ last.ret = "throw"
  /\ queue_ # <<>>
  /\ Len(queue_) < max_size_

\* C8 as claimed: after shutdown a tryRemove still delivers the front item
\* while the buffer holds one, and raises ShutdownException only once the
\* buffer is drained.
ShutdownDrainByTryRemove ==
  [][\A t \in Threads :
       (Leaves(t) /\ op[t] = "tryRemove" /\ ~is_active_)
         => IF queue_ # <<>>
              THEN /\ last'.ret = "true"
                   /\ last'.out = Head(queue_)
                   /\ queue_' = Tail(queue_)
              ELSE last'.ret = "throw"]_vars

\* C8 amended: after shutdown the first tryRemove already raises
\* ShutdownException: it delivers nothing and the inserted items stay in
\* the buffer.
ShutdownKeepsItems ==
  [][\A t \in Threads :
       (Leaves(t) /\ op[t] = "tryRemove" /\ ~is_active_)
         => /\ last' = Thrown(t, "tryRemove")
            /\ removed' = removed
            /\ queue_' = queue_]_vars

\* Capacity-many items were inserted, shutdown was called, tryRemove threw
\* and every inserted item is still buffered.
ShutdownKeepsItemsWitness ==
  /\ ~is_active_
  /\ last.op = "tryRemove" /\ last.ret = "throw"
  /\ Len(queue_) = max_size_
  /\ queue_ = inserted
  /\ removed = <<>>

\* C9 as claimed: a waitRemove that finds the queue shut down delivers the
\* front item while the buffer holds one and throws only on an empty buffer.
WaitRemoveDrains ==
  [][\A t \in Threads :
       (Leaves(t) /\ op[t] = "waitRemove" /\ ~is_active_)
         => IF queue_ # <<>>
              THEN /\ last'.ret = "void"
                   /\ last'.out = Head(queue_)
                   /\ queue_' = Tail(queue_)
              ELSE last'.ret = "throw"]_vars

\* C9 amended: a waitRemove that finds the queue shut down throws
\* ShutdownException whether or not the buffer holds an item, delivers
\* nothing and leaves the buffer unchanged.
WaitRemoveThrowsWhenShutDown ==
  [][\A t \in Threads :
       (Leaves(t) /\ op[t] = "waitRemove" /\ ~is_active_)
         => /\ pc'[t] = "idle"
            /\ last' = Thrown(t, "waitRemove")
            /\ removed' = removed
            /\ queue_' = queue_]_vars

\* A waitRemove threw although the buffer held an item.
WaitRemoveThrowsWitness ==
  /\ ~is_active_
  /\ last.op = "waitRemove" /\ last.ret = "throw"
  /\ queue_ # <<>>

\* C10: once is_active_ is false the buffer changes only in a step of
\* clear(), which empties it.
FrozenAfterShutdown ==
  [][(~is_active_ /\ queue_' # queue_)
       => /\ mutex_ # Free
          /\ op[mutex_] = "clear"
          /\ queue_' = <<>>]_vars

\* A waitAdd threw on a shut-down buffer that had free space and still
\* holds its items.
FrozenAfterShutdownWitness ==
  /\ ~is_active_
  /\ last.op = "waitAdd" /\ last.ret = "throw"
  /\ queue_ # <<>>
  /\ Len(queue_) < max_size_
  /\ discarded = <<>>

\* shutdown() has been invoked: it is running or it has returned.
ShutdownInvoked ==
  ~is_active_ \/ \E u \in Threads : pc[u] = "body" /\ op[u] = "shutdown"

Suspended(t) == pc[t] \in {"waiting", "woken"}

\* C5: a producer suspended in waitAdd when shutdown() is invoked eventually
\* returns from waitAdd by throwing ShutdownException.
ProducersLeaveOnShutdown ==
  \A t \in Threads :
    (Suspended(t) /\ op[t] = "waitAdd" /\ ShutdownInvoked)
      ~> (last = Thrown(t, "waitAdd"))

\* Two producers that were suspended on a full buffer have been notified by
\* shutdown().
ProducersLeaveOnShutdownWitness ==
  /\ ~is_active_
  /\ Len(queue_) = max_size_
  /\ \E t, u \in Threads :
       /\ t # u
       /\ pc[t] = "woken" /\ op[t] = "waitAdd"
       /\ pc[u] = "woken" /\ op[u] = "waitAdd"

\* C6: once the queue is shut down no thread is in the wait set of
\* not_empty_ or not_full_, and every thread that was suspended in waitAdd
\* or waitRemove when shutdown() was invoked eventually returns.
ShutdownWakesAll ==
  /\ [](~is_active_ => (not_empty_ = {} /\ not_full_ = {}))
  /\ \A t \in Threads :
       (Suspended(t) /\ ShutdownInvoked) ~> (pc[t] = "idle")

\* Two consumers that were suspended on an empty buffer have been notified
\* by shutdown().
ShutdownWakesAllWitness ==
  /\ ~is_active_
  /\ queue_ = <<>>
  /\ \E t, u \in Threads :
       /\ t # u
       /\ pc[t] = "woken" /\ op[t] = "waitRemove"
       /\ pc[u] = "woken" /\ op[u] = "waitRemove"

Returned(t, o) == [by |-> t, op |-> o, ret |-> "void", out |-> NoItem]

\* C11: the active flag is true right after construction, and once it is
\* false no step of any operation makes it true again.
OneWayLifecycle ==
  /\ is_active_ = TRUE
  /\ [][is_active_ = FALSE => is_active_' = FALSE]_vars

\* The queue was shut down and cleared, a later insertion or removal has
\* thrown, and the flag is still false.
OneWayLifecycleWitness ==
  /\ ~is_active_
  /\ discarded # <<>>
  /\ last.ret = "throw"

\* C12: a shutdown() that runs on a queue already shut down leaves the active
\* flag, the buffer and the item histories as they were; every shutdown()
\* leaves the flag false and the buffer untouched; isActive() answers false
\* on a queue that was shut down.
IdempotentShutdown ==
  [][\A t \in Threads :
       /\ (Leaves(t) /\ op[t] = "shutdown") =>
            /\ ~is_active_'
            /\ UNCHANGED <<queue_, inserted, removed, discarded>>
            /\ last' = Returned(t, "shutdown")
            /\ ~is_active_ => UNCHANGED is_active_
       /\ (Leaves(t) /\ op[t] = "isActive" /\ ~is_active_) =>
            /\ last'.ret = "false"
            /\ ~is_active_'
     ]_vars

\* isActive() has answered false while a further shutdown() is inside its
\* critical section on the queue already shut down and cleared.
IdempotentShutdownWitness ==
  /\ last.op = "isActive" /\ last.ret = "false"
  /\ discarded # <<>>
  /\ \E u \in Threads : pc[u] = "body" /\ op[u] = "shutdown"

\* C13: a clear() that runs while the queue is active changes neither the
\* buffer (hence size()) nor the active flag, discards nothing, and returns
\* normally.
ClearNoOpWhileActive ==
  [][\A t \in Threads :
       (Leaves(t) /\ op[t] = "clear" /\ is_active_) =>
         /\ UNCHANGED <<queue_, is_active_, inserted, removed, discarded>>
         /\ last' = Returned(t, "clear")
         /\ pc'[t] = "idle"
     ]_vars

\* clear() has returned on an active queue that holds items.
ClearNoOpWhileActiveWitness ==
  /\ is_active_
  /\ last.op = "clear"
  /\ queue_ # <<>>

\* C14: a clear() that runs after shutdown leaves the buffer empty whatever
\* it held; the empty buffer of a shut-down queue stays empty, and size()
\* then answers 0.
ClearAfterShutdownEmpties ==
  [][\A t \in Threads :
       /\ (Leaves(t) /\ op[t] = "clear" /\ ~is_active_) =>
            /\ queue_' = <<>>
            /\ discarded' = discarded \o queue_
       /\ (~is_active_ /\ queue_ = <<>>) => queue_' = <<>>
       /\ (Leaves(t) /\ op[t] = "size") =>
            /\ last'.ret = "value"
            /\ last'.out = Len(queue_)
            /\ Len(queue_) = Len(inserted) - Len(removed) - Len(discarded)
     ]_vars

\* A full buffer of at least two items was discarded by clear() after
\* shutdown, and size() has answered 0 afterwards.
ClearAfterShutdownEmptiesWitness ==
  /\ ~is_active_
  /\ Len(discarded) >= 2
  /\ last.op = "size" /\ last.out = 0
  /\ queue_ = <<>>

\* t returns from its member function (normally or by an exception).
Returns(t) == Leaves(t) /\ pc'[t] = "idle"

\* C15: on an active queue tryAdd returns true and appends its item if the
\* buffer has room, and returns false leaving the buffer alone if it is
\* full; tryRemove returns true with the front item, popping it, if the
\* buffer is non-empty, and returns false leaving the buffer alone if it is
\* empty; a thread inside tryAdd or tryRemove is never suspended.
NonBlockingResults ==
  /\ [](\A t \in Threads :
          op[t] \in {"tryAdd", "tryRemove"} => pc[t] = "body")
  /\ [][\A t \in Threads :
          /\ (Leaves(t) /\ op[t] = "tryAdd" /\ is_active_) =>
               /\ Returns(t)
               /\ last'.by = t /\ last'.op = "tryAdd"
               /\ (last'.ret = "true") = (Len(queue_) < max_size_)
               /\ (last'.ret = "false") = (Len(queue_) = max_size_)
               /\ queue_' = IF Len(queue_) < max_size_
                               THEN Append(queue_, arg[t])
                               ELSE queue_
          /\ (Leaves(t) /\ op[t] = "tryRemove" /\ is_active_) =>
               /\ Returns(t)
               /\ last'.by = t /\ last'.op = "tryRemove"
               /\ (last'.ret = "true") = (queue_ # <<>>)
               /\ (last'.ret = "false") = (queue_ = <<>>)
               /\ queue_ # <<>> => last'.out = Head(queue_)
               /\ queue_' = IF queue_ # <<>> THEN Tail(queue_) ELSE queue_
       ]_vars

\* tryRemove has delivered an item that differs from the item now at the
\* front of the active buffer.
NonBlockingResultsWitness ==
  /\ is_active_
  /\ last.op = "tryRemove" /\ last.ret = "true"
  /\ queue_ # <<>>
  /\ last.out # Head(queue_)

\* C16: a waitAdd that finds the queue shut down when it holds the mutex (on
\* entry or after a wake-up) throws ShutdownException and inserts nothing,
\* whether or not the buffer has room: the buffer and the histories of
\* inserted and delivered items are unchanged.
WaitAddDiscardsOnShutdown ==
  [][\A t \in Threads :
       (Leaves(t) /\ op[t] = "waitAdd" /\ ~is_active_) =>
         /\ last' = Thrown(t, "waitAdd")
         /\ Returns(t)
         /\ UNCHANGED <<queue_, inserted, removed, discarded>>
     ]_vars

\* A consumer made room in the buffer, the queue was shut down, and a
\* waitAdd threw although the buffer had room.
WaitAddDiscardsOnShutdownWitness ==
  /\ \E t \in Threads : last = Thrown(t, "waitAdd")
  /\ removed # <<>>
  /\ Len(queue_) < max_size_

\* C17: a step that takes a thread out of the critical section of waitAdd or
\* waitRemove either suspends it on a full (waitAdd) or empty (waitRemove)
\* active buffer without any effect, or throws on a shut-down queue without
\* any effect, or returns normally on an active queue having appended its
\* item once (waitAdd) or popped and delivered the front item (waitRemove).
BlockingReturnsByEffectOrThrow ==
  [][\A t \in Threads :
       (Leaves(t) /\ op[t] \in WaitOps) =>
         \/ /\ pc'[t] = "waiting"
            /\ is_active_
            /\ IF op[t] = "waitAdd" THEN Len(queue_) = max_size_
                                    ELSE queue_ = <<>>
            /\ UNCHANGED <<queue_, is_active_, last, inserted, removed,
                           discarded>>
         \/ /\ Returns(t)
            /\ last' = Thrown(t, op[t])
            /\ ~is_active_
            /\ UNCHANGED <<queue_, is_active_, inserted, removed, discarded>>
         \/ /\ Returns(t)
            /\ last'.by = t /\ last'.op = op[t] /\ last'.ret = "void"
            /\ is_active_ /\ is_active_'
            /\ IF op[t] = "waitAdd"
                 THEN /\ Len(queue_) < max_size_
                      /\ queue_' = Append(queue_, arg[t])
                      /\ inserted' = Append(inserted, arg[t])
                      /\ UNCHANGED <<removed, discarded>>
                 ELSE /\ queue_ # <<>>
                      /\ last'.out = Head(queue_)
                      /\ queue_' = Tail(queue_)
                      /\ removed' = Append(removed, Head(queue_))
                      /\ UNCHANGED <<inserted, discarded>>
     ]_vars

\* waitAdd has returned normally and the buffer ends with an item that
\* differs from the one at its front.
BlockingReturnsByEffectOrThrowWitness ==
  /\ last.op = "waitAdd" /\ last.ret = "void"
  /\ Len(queue_) >= 2
  /\ queue_[Len(queue_)] # Head(queue_)

\* C18: the mutex is held only by a thread inside a critical section, and a
\* step in which tryAdd, waitAdd, tryRemove or waitRemove throws releases the
\* mutex and leaves the buffer, the active flag and the wait sets as they
\* were.
ExceptionSafety ==
  /\ [](mutex_ # Free => pc[mutex_] = "body")
  /\ [][\A t \in Threads :
          (Returns(t) /\ last'.ret = "throw") =>
            /\ op[t] \in AddOps \cup RemoveOps
            /\ last' = Thrown(t, op[t])
            /\ mutex_ = t /\ mutex_' = Free
            /\ UNCHANGED <<queue_, is_active_, not_full_, not_empty_,
                           inserted, removed, discarded>>
       ]_vars

\* After an operation threw on a shut-down queue that still holds items,
\* another thread has acquired the mutex.
ExceptionSafetyWitness ==
  /\ last.ret = "throw"
  /\ mutex_ # Free /\ mutex_ # last.by
  /\ queue_ # <<>>

InCriticalSection == {t \in Threads : pc[t] = "body"}

\* C19: at most one thread is inside a critical section, and it is the
\* holder of the mutex; the buffer, the active flag, the item histories and
\* the recorded result of an operation (a query's answer included) change only
\* in the one step in which the holder of the mutex leaves its critical
\* section.
MutualExclusion ==
  /\ [](/\ Cardinality(InCriticalSection) <= 1
        /\ \A t \in Threads : (pc[t] = "body") = (mutex_ = t))
  /\ [][(\/ queue_' # queue_
         \/ is_active_' # is_active_
         \/ last' # last
         \/ inserted' # inserted
         \/ removed' # removed
         \/ discarded' # discarded)
          => /\ mutex_ # Free
             /\ Leaves(mutex_)
             /\ \A u \in Threads \ {mutex_} :
                  pc'[u] # pc[u] => (pc[u] = "waiting" /\ pc'[u] = "woken")
       ]_vars

\* A pure query is inside its critical section while two other threads,
\* woken inside wait, are blocked on the mutex.
MutualExclusionWitness ==
  \E t, u, v \in Threads :
    /\ u # v
    /\ mutex_ = t /\ pc[t] = "body" /\ op[t] \in QueryOps
    /\ pc[u] = "woken" /\ pc[v] = "woken"

\* C20: when the destructor has returned the queue is inactive with an empty
\* buffer and nobody is in a wait set; its shutdown step broadcasts both
\* conditions, so every thread suspended in waitAdd or waitRemove is woken,
\* and its clear step empties the buffer, whatever was called before.
DestructionShutsDownAndClears ==
  /\ [](Destroyed =>
          /\ ~is_active_
          /\ queue_ = <<>>
          /\ not_full_ = {} /\ not_empty_ = {}
          /\ \A u \in Threads : pc[u] # "waiting")
  /\ [][\A t \in Threads :
          /\ (Leaves(t) /\ op[t] = DtorShutdown) =>
               /\ ~is_active_'
               /\ not_full_' = {} /\ not_empty_' = {}
               /\ \A u \in Threads : pc[u] = "waiting" => pc'[u] = "woken"
               /\ queue_' = queue_
          /\ (Leaves(t) /\ op[t] = DtorClear) =>
               /\ queue_' = <<>>
               /\ discarded' = discarded \o queue_
               /\ Destroyed'
       ]_vars

\* The destructor has returned after discarding items, and a thread that was
\* suspended in waitAdd or waitRemove is out of the wait set.
DestructionShutsDownAndClearsWitness ==
  /\ Destroyed
  /\ discarded # <<>>
  /\ \E u \in Threads : pc[u] = "woken" /\ op[u] \in WaitOps

\* One producer, one consumer, and the remaining threads coordinate and
\* observe: besides shutdown and clear they call the pure queries.
ObserverNext ==
  \/ \E o \in AddOps : \E x \in PlainItems : Lock(Producer, o, x)
  \/ \E o \in RemoveOps : Lock(Consumer, o, NoItem)
  \/ \E t \in Controllers :
       \E o \in ControlOps \cup QueryOps : Lock(t, o, NoItem)
  \/ tryAdd(Producer)
  \/ waitAdd(Producer)
  \/ tryRemove(Consumer)
  \/ waitRemove(Consumer)
  \/ \E t \in Controllers : shutdown(t)
  \/ \E t \in Controllers : clear(t)
  \/ \E t \in Threads : SpuriousWakeup(t)
  \/ \E t \in Threads : Reacquire(t)
  \/ \E t \in Controllers : size(t)
  \/ \E t \in Controllers : empty(t)
  \/ \E t \in Controllers : full(t)
  \/ \E t \in Controllers : isActive(t)

ObserverSpec == Init /\ [][ObserverNext]_vars

\* What query o answers in the current state: result and number.
Snapshot(o) ==
  CASE o = "size" -> <<"value", Len(queue_)>>
    [] o = "empty" -> <<BoolRet(Len(queue_) = 0), NoItem>>
    [] o = "full" -> <<BoolRet(Len(queue_) = max_size_), NoItem>>
    [] o = "isActive" -> <<BoolRet(is_active_), NoItem>>

\* C21: a thread inside size(), empty(), full() or isActive() is never
\* suspended; the step that ends the query returns (it never throws, also
\* after shutdown), changes nothing of the container, and answers the value
\* of the state in which it holds the mutex: the number of items, whether
\* that number is 0, whether it is the capacity, and the active flag.
PureQueries ==
  /\ [](\A t \in Threads : op[t] \in QueryOps => pc[t] = "body")
  /\ [][\A t \in Threads :
          (Leaves(t) /\ op[t] \in QueryOps) =>
            /\ Returns(t)
            /\ UNCHANGED <<max_size_, queue_, is_active_, not_full_,
                           not_empty_, inserted, removed, discarded>>
            /\ last' = [by |-> t, op |-> op[t],
                        ret |-> Snapshot(op[t])[1],
                        out |-> Snapshot(op[t])[2]]
       ]_vars

\* size() has answered the capacity, which is at least 2, on a queue that is
\* shut down.
PureQueriesWitness ==
  /\ ~is_active_
  /\ last.op = "size" /\ last.ret = "value"
  /\ last.out = max_size_ /\ last.out >= 2

\* The constructor stores any size_type value as the capacity, 0 included:
\* it does not validate its argument.
CtorCapacities == 0..MaxCapacity

CtorInit ==
  /\ max_size_ \in CtorCapacities
  /\ queue_ = <<>>
  /\ is_active_ = TRUE
  /\ mutex_ = Free
  /\ not_full_ = {}
  /\ not_empty_ = {}
  /\ pc = [t \in Threads |-> "idle"]
  /\ op = [t \in Threads |-> "none"]
  /\ arg = [t \in Threads |-> NoItem]
  /\ last = [by |-> 0, op |-> "none", ret |-> "none", out |-> NoItem]
  /\ inserted = <<>>
  /\ removed = <<>>
  /\ discarded = <<>>

CtorSpec == CtorInit /\ [][SpscNext]_vars

\* C25: the capacity of a constructed queue is at least 1 and no step
\* changes it, so a tryAdd on an active empty queue returns true.
PositiveFixedCapacity ==
  /\ [](max_size_ >= 1)
  /\ [][/\ max_size_' = max_size_
        /\ \A t \in Threads :
             (Leaves(t) /\ op[t] = "tryAdd" /\ is_active_ /\ queue_ = <<>>)
               => last'.ret = "true"
       ]_vars

\* Any thread inserts and removes, blocking or not; nobody shuts the queue
\* down.
ActiveNext ==
  \/ \E t \in Threads : \E o \in AddOps \cup RemoveOps :
       \E x \in PlainItems \cup {NoItem} : Lock(t, o, x)
  \/ \E t \in Threads : tryAdd(t)
  \/ \E t \in Threads : waitAdd(t)
  \/ \E t \in Threads : tryRemove(t)
  \/ \E t \in Threads : waitRemove(t)
  \/ \E t \in Threads : SpuriousWakeup(t)
  \/ \E t \in Threads : Reacquire(t)

ActiveSpec == Init /\ [][ActiveNext]_vars

\* The threads that the step notifies: they leave a wait set.
Notified == {u \in Threads : pc[u] = "waiting" /\ pc'[u] = "woken"}

\* The step takes exactly one waiter out of the wait set cv (none if cv is
\* empty) and nobody else.
SignalsOne(cv) ==
  /\ Notified \subseteq cv
  /\ Cardinality(Notified) = IF cv = {} THEN 0 ELSE 1

Succeeds(t) == Returns(t) /\ last'.ret \in {"true", "void"}

\* C26: a successful tryAdd or waitAdd takes one waiter out of the wait set
\* of not_empty_ exactly when the buffer was empty (its size becomes 1), a
\* successful tryRemove or waitRemove takes one waiter out of the wait set
\* of not_full_ exactly when the buffer was full (its size becomes the
\* capacity minus 1), and no other returning insert or removal takes anybody
\* out of a wait set.
SignallingProtocol ==
  [][\A t \in Threads :
       (Returns(t) /\ op[t] \in AddOps \cup RemoveOps) =>
         /\ not_empty_' = not_empty_ \ Notified
         /\ not_full_' = not_full_ \ Notified
         /\ IF Succeeds(t) /\ op[t] \in AddOps /\ queue_ = <<>>
              THEN Len(queue_') = 1 /\ SignalsOne(not_empty_)
            ELSE IF Succeeds(t) /\ op[t] \in RemoveOps
                    /\ Len(queue_) = max_size_
              THEN Len(queue_') = max_size_ - 1 /\ SignalsOne(not_full_)
            ELSE Notified = {}
     ]_vars

\* An insert into the empty buffer has notified one of two suspended
\* consumers; the other one is still in the wait set.
SignallingProtocolWitness ==
  /\ Len(queue_) = 1
  /\ last.op \in AddOps /\ last.ret \in {"true", "void"}
  /\ \E u, v \in Threads :
       /\ u # v
       /\ pc[u] = "woken" /\ op[u] = "waitRemove"
       /\ v \in not_empty_

\* Any thread calls the blocking operations and shutdown, under any
\* scheduling.
BlockingSpec == Init /\ [][BlockingNext]_vars

\* C27: a woken waiter only re-acquires the mutex and goes through its
\* predicate again, without touching the buffer; so whatever woke it, a
\* waitAdd pushes only onto an active buffer that has room, a waitRemove
\* reads the front and pops only from an active non-empty buffer, and the
\* buffer never exceeds the capacity.
SpuriousWakeupSafe ==
  /\ [](Len(queue_) <= max_size_)
  /\ [][\A t \in Threads :
          /\ (pc[t] = "woken" /\ pc'[t] # "woken") =>
               /\ pc'[t] = "body"
               /\ UNCHANGED <<queue_, inserted, removed, last>>
          /\ (Leaves(t) /\ op[t] = "waitAdd" /\ inserted' # inserted) =>
               /\ Len(queue_) < max_size_
               /\ is_active_
               /\ queue_' = Append(queue_, arg[t])
          /\ (Leaves(t) /\ op[t] = "waitRemove" /\ removed' # removed) =>
               /\ queue_ # <<>>
               /\ is_active_
               /\ removed' = Append(removed, Head(queue_))
               /\ queue_' = Tail(queue_)
          /\ (Leaves(t) /\ op[t] \in WaitOps /\ last'.ret = "void"
                /\ Returns(t)) =>
               (inserted' # inserted \/ removed' # removed)
       ]_vars

\* A consumer is out of the wait set although nothing was ever inserted and
\* the queue is active: it was woken spuriously and faces an empty buffer.
SpuriousWakeupSafeWitness ==
  /\ is_active_
  /\ inserted = <<>>
  /\ \E t \in Threads : pc[t] = "woken" /\ op[t] = "waitRemove"

Writers == {t \in Threads : t % 2 = 1}

Readers == Threads \ Writers

WriterItem(t) == (t + 1) \div 2

ManyNext ==
  \/ \E t \in Writers : \E o \in AddOps : Lock(t, o, WriterItem(t))
  \/ \E t \in Readers : \E o \in RemoveOps \cup ControlOps :
       Lock(t, o, NoItem)
  \/ \E t \in Writers : tryAdd(t)
  \/ \E t \in Writers : waitAdd(t)
  \/ \E t \in Readers : tryRemove(t)
  \/ \E t \in Readers : waitRemove(t)
  \/ \E t \in Readers : shutdown(t)
  \/ \E t \in Readers : clear(t)
  \/ \E t \in Threads : SpuriousWakeup(t)
  \/ \E t \in Threads : Reacquire(t)

ManySpec == Init /\ [][ManyNext]_vars

\* How many times x occurs in the sequence s.
Count(s, x) == Cardinality({i \in 1..Len(s) : s[i] = x})

NonBlockingOps == {"tryAdd", "tryRemove"} \cup ControlOps \cup QueryOps

\* A thread that is inside a critical section runs on until it leaves it
\* (by returning, throwing or suspending in wait).
CriticalSection ==
  \E t \in Threads :
    \/ tryAdd(t) \/ waitAdd(t) \/ tryRemove(t) \/ waitRemove(t)
    \/ shutdown(t) \/ clear(t)
    \/ size(t) \/ empty(t) \/ full(t) \/ isActive(t)

ObserverFairSpec ==
  Init /\ [][ObserverNext]_vars /\ WF_vars(CriticalSection)

\* C22: a thread inside shutdown(), clear(), tryAdd, tryRemove or a query is
\* never suspended on a condition and eventually returns or throws; a
\* suspended thread never holds the mutex, so however many threads are
\* suspended the mutex is free again and again for whoever wants to acquire
\* it; shutdown() always returns normally.
NonBlockingComplete ==
  /\ [](\A t \in Threads :
          /\ op[t] \in NonBlockingOps => pc[t] = "body"
          /\ Suspended(t) => mutex_ # t)
  /\ \A t \in Threads :
       (pc[t] = "body" /\ op[t] \in NonBlockingOps) ~> (pc[t] = "idle")
  /\ []<>(mutex_ = Free)
  /\ [][\A t \in Threads :
          (Leaves(t) /\ op[t] = "shutdown") => last' = Returned(t, "shutdown")
       ]_vars

\* shutdown() is inside its critical section while the producer and the
\* consumer are both suspended.
NonBlockingCompleteWitness ==
  /\ \E t \in Threads : pc[t] = "body" /\ op[t] = "shutdown"
  /\ Suspended(Producer) /\ op[Producer] = "waitAdd"
  /\ Suspended(Consumer) /\ op[Consumer] = "waitRemove"

\* ------------------------------------------- the notify_all variant
\* TSC::ThreadSafeContainer (ThreadSafeContainerPrivate.hpp): the same
\* members under other names (mtx, notFull, notEmpty, maxSize, fifo, inUse),
\* notify_all where the library has notify_one, and more notifications.
TSC_NotifyAfterPush(q) == IF Len(q) = 1 THEN NotifyAll(not_empty_) ELSE NoNotify

TSC_NotifyAfterPop(q) ==
  IF Len(q) = max_size_ - 1 THEN NotifyAll(not_full_) ELSE NoNotify

\* waitAdd / waitRemove that find the queue shut down notify before throwing
TSC_NotifyFullShutDown ==
  IF Len(queue_) = max_size_ /\ ~is_active_ THEN NotifyAll(not_full_)
                                             ELSE NoNotify

TSC_NotifyEmptyShutDown ==
  IF queue_ = <<>> /\ ~is_active_ THEN NotifyAll(not_empty_) ELSE NoNotify

TSC_tryAdd(t) ==
  /\ pc[t] = "body" /\ op[t] = "tryAdd"
  /\ IF ~is_active_ THEN Throw(t)
     ELSE IF Len(queue_) = max_size_
       THEN /\ Return(t, {}, "false", NoItem)
            /\ UNCHANGED <<max_size_, queue_, is_active_, not_full_,
                           not_empty_, inserted, removed, discarded>>
       ELSE /\ queue_' = Push(queue_, arg[t])
            /\ inserted' = Append(inserted, arg[t])
            /\ \E W \in TSC_NotifyAfterPush(queue_') :
                 /\ not_empty_' = not_empty_ \ W
                 /\ Return(t, W, "true", NoItem)
            /\ UNCHANGED <<max_size_, is_active_, not_full_, removed,
                           discarded>>

TSC_waitAdd(t) ==
  /\ pc[t] = "body" /\ op[t] = "waitAdd"
  /\ IF ~(Len(queue_) < max_size_ \/ ~is_active_)
       THEN /\ not_full_' = not_full_ \cup {t}
            /\ pc' = [pc EXCEPT ![t] = "waiting"]
            /\ mutex_' = WaitUnlocked(t)
            /\ UNCHANGED <<max_size_, queue_, is_active_, not_empty_, op, arg,
                           last, inserted, removed, discarded>>
     ELSE IF ~is_active_
       THEN /\ \E W \in TSC_NotifyFullShutDown :
                 /\ not_full_' = not_full_ \ W
                 /\ Return(t, W, "throw", NoItem)
            /\ UNCHANGED <<max_size_, queue_, is_active_, not_empty_,
                           inserted, removed, discarded>>
     ELSE /\ queue_' = Push(queue_, arg[t])
          /\ inserted' = Append(inserted, arg[t])
          /\ \E W \in TSC_NotifyAfterPush(queue_') :
               /\ not_empty_' = not_empty_ \ W
               /\ Return(t, W, "void", NoItem)
          /\ UNCHANGED <<max_size_, is_active_, not_full_, removed,
                         discarded>>

TSC_tryRemove(t) ==
  /\ pc[t] = "body" /\ op[t] = "tryRemove"
  /\ IF ~is_active_ THEN Throw(t)
     ELSE IF queue_ = <<>>
       THEN /\ Return(t, {}, "false", NoItem)
            /\ UNCHANGED <<max_size_, queue_, is_active_, not_full_,
                           not_empty_, inserted, removed, discarded>>
       ELSE /\ queue_' = Pop(queue_)
            /\ removed' = Append(removed, Front(queue_))
            /\ \E W \in TSC_NotifyAfterPop(queue_') :
                 /\ not_full_' = not_full_ \ W
                 /\ Return(t, W, "true", Front(queue_))
            /\ UNCHANGED <<max_size_, is_active_, not_empty_, inserted,
                           discarded>>

TSC_waitRemove(t) ==
  /\ pc[t] = "body" /\ op[t] = "waitRemove"
  /\ IF ~(queue_ # <<>> \/ ~is_active_)
       THEN /\ not_empty_' = not_empty_ \cup {t}
            /\ pc' = [pc EXCEPT ![t] = "waiting"]
            /\ mutex_' = WaitUnlocked(t)
            /\ UNCHANGED <<max_size_, queue_, is_active_, not_full_, op, arg,
                           last, inserted, removed, discarded>>
     ELSE IF ~is_active_
       THEN /\ \E W \in TSC_NotifyEmptyShutDown :
                 /\ not_empty_' = not_empty_ \ W
                 /\ Return(t, W, "throw", NoItem)
            /\ UNCHANGED <<max_size_, queue_, is_active_, not_full_,
                           inserted, removed, discarded>>
     ELSE /\ queue_' = Pop(queue_)
          /\ removed' = Append(removed, Front(queue_))
          /\ \E W \in TSC_NotifyAfterPop(queue_') :
               /\ not_full_' = not_full_ \ W
               /\ Return(t, W, "void", Front(queue_))
          /\ UNCHANGED <<max_size_, is_active_, not_empty_, inserted,
                         discarded>>

TSC_shutdown(t) ==
  /\ pc[t] = "body" /\ op[t] = "shutdown"
  /\ is_active_' = FALSE
  /\ \E WE \in NotifyAll(not_empty_) : \E WF \in NotifyAll(not_full_) :
       /\ not_empty_' = not_empty_ \ WE
       /\ not_full_' = not_full_ \ WF
       /\ Return(t, WE \cup WF, "void", NoItem)
  /\ UNCHANGED <<max_size_, queue_, inserted, removed, discarded>>

TSC_clear(t) ==
  /\ pc[t] = "body" /\ op[t] = "clear"
  /\ IF ~is_active_
       THEN /\ queue_' = <<>>
            /\ discarded' = discarded \o queue_
            /\ \E WE \in NotifyAll(not_empty_) :
                 \E WF \in NotifyAll(not_full_) :
                   /\ not_empty_' = not_empty_ \ WE
                   /\ not_full_' = not_full_ \ WF
                   /\ Return(t, WE \cup WF, "void", NoItem)
       ELSE /\ Return(t, {}, "void", NoItem)
            /\ UNCHANGED <<queue_, discarded, not_empty_, not_full_>>
  /\ UNCHANGED <<max_size_, is_active_, inserted, removed>>

\* Any thread may call any operation of the notify_all variant.
TSC_Next ==
  \/ \E t \in Threads : \E o \in AllOps : \E x \in PlainItems \cup {NoItem} :
       Lock(t, o, x)
  \/ \E t \in Threads : TSC_tryAdd(t)
  \/ \E t \in Threads : TSC_waitAdd(t)
  \/ \E t \in Threads : TSC_tryRemove(t)
  \/ \E t \in Threads : TSC_waitRemove(t)
  \/ \E t \in Threads : TSC_shutdown(t)
  \/ \E t \in Threads : TSC_clear(t)
  \/ \E t \in Threads : SpuriousWakeup(t)
  \/ \E t \in Threads : Reacquire(t)

TSC_Spec == Init /\ [][TSC_Next]_vars

\* C30: every state that is reachable with the library queue is reachable
\* with the notify_all queue.  With the notify_all queue no state is
\* reachable in which the queue is active and a consumer is in the wait set
\* of not_empty_ although the buffer holds an item, or a producer is in the
\* wait set of not_full_ although the buffer has room (an invariant of
\* TSC_Spec); so no such state is reachable with the library queue.
ReachableWithNotifyAll ==
  is_active_ =>
    /\ queue_ # <<>> => not_empty_ = {}
    /\ Len(queue_) < max_size_ => not_full_ = {}

\* ------------------------------------------------ the test (TSCTest.cpp)
\* main() shares one TSC::ThreadSafeContainer with writer threads running
\* writerFunc and reader threads running readerFunc.  While a thread is
\* outside the member functions, op holds its position in its function:
\*   writerFunc   "loop"  at the head of the for loop
\*                "retry" tryAdd returned false, waitAdd comes next
\*   readerFunc   "loop"  at the head of the while loop, empty() comes next
\*                "take"  empty() returned false, tryRemove comes next
\*                "retry" tryRemove returned false, waitRemove comes next
\*   both         "done"  the function has ended
\*                "none"  a member function has just returned to the thread
\* main is not one of Threads.  Its three calls never suspend, so each of
\* them is one step: acquiring the mutex, the critical section and the
\* return.  Its position is told by what it has done so far.
Main == 0

\* The test is run with one writer thread and two reader threads; any other
\* thread is never started.
TestWriters == {1}

TestReaders == {2, 3}

TestInit ==
  /\ max_size_ \in Capacities
  /\ queue_ = <<>>
  /\ is_active_ = TRUE
  /\ mutex_ = Free
  /\ not_full_ = {}
  /\ not_empty_ = {}
  /\ pc = [t \in Threads |-> "idle"]
  /\ op = [t \in Threads |->
             IF t \in TestWriters \cup TestReaders THEN "loop" ELSE "done"]
  /\ arg = [t \in Threads |-> NoItem]
  /\ last = [by |-> Main, op |-> "none", ret |-> "none", out |-> NoItem]
  /\ inserted = <<>>
  /\ removed = <<>>
  /\ discarded = <<>>

TSC_empty(t) ==
  /\ pc[t] = "body" /\ op[t] = "empty"
  /\ Query(t, BoolRet(queue_ = <<>>), NoItem)

\* A member function has returned to t and t has not looked at the outcome.
Pending(t) == pc[t] = "idle" /\ op[t] = "none" /\ last.by = t

NoPending == \A t \in Threads : ~Pending(t)

\* Where the outcome of the call that has just returned takes the thread: an
\* exception ends writerFunc and readerFunc (catch block).
AfterCall ==
  IF last.ret = "throw" THEN "done"
  ELSE CASE last.op = "tryAdd" ->
              IF last.ret = "true" THEN "loop" ELSE "retry"
         [] last.op = "waitAdd" -> "loop"
         [] last.op = "empty" -> IF last.ret = "true" THEN "done" ELSE "take"
         [] last.op = "tryRemove" ->
              IF last.ret = "true" THEN "loop" ELSE "retry"
         [] last.op = "waitRemove" -> "loop"

\* The thread takes the outcome of its call.  This step is local to the
\* thread, so it is taken before any other thread moves.
Resume(t) ==
  /\ Pending(t)
  /\ op' = [op EXCEPT ![t] = AfterCall]
  /\ UNCHANGED <<max_size_, queue_, is_active_, mutex_, not_full_,
                 not_empty_, pc, arg, last, inserted, removed, discarded>>

\* Every writerFunc and readerFunc has ended: the joins of main return.
TasksDone == \A t \in Threads : pc[t] = "idle" /\ op[t] = "done"

\* The next call of thread t, according to its position.
TestCall(t) ==
  /\ NoPending
  /\ IF t \in TestWriters
       THEN \/ op[t] = "loop" /\ Lock(t, "tryAdd", WriterItem(t))
            \/ op[t] = "retry" /\ Lock(t, "waitAdd", WriterItem(t))
       ELSE \/ op[t] = "loop" /\ Lock(t, "empty", NoItem)
            \/ op[t] = "take" /\ Lock(t, "tryRemove", NoItem)
            \/ op[t] = "retry" /\ Lock(t, "waitRemove", NoItem)

\* The for loop of writerFunc ends (the number of attempts is left open; it
\* is at most MaxInserts for all writers together).
WriterEnds(t) ==
  /\ NoPending
  /\ t \in TestWriters
  /\ pc[t] = "idle" /\ op[t] \in {"loop", "retry"}
  /\ op[t] = "retry" =>
       Len(inserted) + Cardinality(InFlightAdds) >= MaxInserts
  /\ op' = [op EXCEPT ![t] = "done"]
  /\ UNCHANGED <<max_size_, queue_, is_active_, mutex_, not_full_,
                 not_empty_, pc, arg, last, inserted, removed, discarded>>

\* The position of main: asleep until it has called shutdown(), then in the
\* joins, then past clear(), then past size().
MainAt ==
  IF is_active_ THEN "sleep"
  ELSE IF last.by = Main /\ last.op = "size" THEN "done"
  ELSE IF last.by = Main /\ last.op = "clear" THEN "check"
  ELSE "join"

\* main comes back from member function o with outcome r (and value x); the
\* threads in W were notified inside the critical section.
MainReturns(W, o, r, x) ==
  /\ pc' = Wake(W)
  /\ last' = [by |-> Main, op |-> o, ret |-> r, out |-> x]
  /\ UNCHANGED <<mutex_, op, arg>>

\* as MainShutdown, but without the notifications
MainShutdownSilent ==
  /\ NoPending /\ MutexAvailable
  /\ MainAt = "sleep"
  /\ is_active_' = FALSE
  /\ MainReturns({}, "shutdown", "void", NoItem)
  /\ UNCHANGED <<max_size_, queue_, not_full_, not_empty_, inserted,
                 removed, discarded>>

\* mtq.shutdown() of main: TSC::ThreadSafeContainer::shutdown.
MainShutdown ==
  /\ NoPending /\ MutexAvailable
  /\ MainAt = "sleep"
  /\ is_active_' = FALSE
  /\ \E WE \in NotifyAll(not_empty_) : \E WF \in NotifyAll(not_full_) :
       /\ not_empty_' = not_empty_ \ WE
       /\ not_full_' = not_full_ \ WF
       /\ MainReturns(WE \cup WF, "shutdown", "void", NoItem)
  /\ UNCHANGED <<max_size_, queue_, inserted, removed, discarded>>

\* mtq.clear() of main, after the joins: TSC::ThreadSafeContainer::clear on
\* the queue that is shut down.
MainClear ==
  /\ NoPending /\ MutexAvailable
  /\ MainAt = "join" /\ TasksDone
  /\ queue_' = <<>>
  /\ discarded' = discarded \o queue_
  /\ \E WE \in NotifyAll(not_empty_) : \E WF \in NotifyAll(not_full_) :
       /\ not_empty_' = not_empty_ \ WE
       /\ not_full_' = not_full_ \ WF
       /\ MainReturns(WE \cup WF, "clear", "void", NoItem)
  /\ UNCHANGED <<max_size_, is_active_, inserted, removed>>

\* mtq.size() of main, in its assert: TSC::ThreadSafeContainer::size.
MainSize ==
  /\ NoPending /\ MutexAvailable
  /\ MainAt = "check"
  /\ MainReturns({}, "size", "value", Len(queue_))
  /\ UNCHANGED <<max_size_, queue_, is_active_, not_full_, not_empty_,
                 inserted, removed, discarded>>

TestNext ==
  \/ \E t \in Threads : Resume(t)
  \/ \E t \in Threads : TestCall(t)
  \/ \E t \in Threads : WriterEnds(t)
  \/ \E t \in Threads : TSC_tryAdd(t)
  \/ \E t \in Threads : TSC_waitAdd(t)
  \/ \E t \in Threads : TSC_tryRemove(t)
  \/ \E t \in Threads : TSC_waitRemove(t)
  \/ \E t \in Threads : TSC_empty(t)
  \/ \E t \in Threads : NoPending /\ SpuriousWakeup(t)
  \/ \E t \in Threads : NoPending /\ Reacquire(t)
  \/ MainShutdown
  \/ MainClear
  \/ MainSize

\* Every thread keeps running: it takes the outcome of its call, goes on to
\* its next call, gets the mutex if it is free again and again, and runs
\* through its critical section.  A spurious wakeup is never obliged to
\* happen.
Runs(t) ==
  \/ Resume(t)
  \/ TestCall(t)
  \/ WriterEnds(t)
  \/ NoPending /\ Reacquire(t)
  \/ TSC_tryAdd(t) \/ TSC_waitAdd(t) \/ TSC_tryRemove(t)
  \/ TSC_waitRemove(t) \/ TSC_empty(t)

TestFairness ==
  /\ \A t \in Threads : SF_vars(Runs(t))
  /\ SF_vars(MainShutdown \/ MainClear \/ MainSize)

TestSpec == TestInit /\ [][TestNext]_vars /\ TestFairness

\* main has got past its assert.
TestOver == MainAt = "done"

\* C23: once main has called shutdown() every writer and every reader
\* eventually ends its function, so the joins return; main eventually gets
\* past its assert, which is after the final clear(), and when it does the
\* buffer is empty and size() has answered 0.
TestTerminates ==
  /\ ShutdownInvoked ~> TasksDone
  /\ <>TestOver
  /\ [](TestOver => TasksDone /\ queue_ = <<>> /\ last.out = 0)

\* main has just called shutdown() while a reader was suspended in
\* waitRemove on the empty buffer.
TestTerminatesWitness ==
  /\ last.by = Main /\ last.op = "shutdown"
  /\ queue_ = <<>>
  /\ \E t \in TestReaders : pc[t] = "woken" /\ op[t] = "waitRemove"

\* ---------------------------------------------------------------------------
\* The integration test of the library (class TestRunner): writer tasks,
\* reader tasks and runTest(), over tsc::ThreadSafeContainer.  The thread
\* Coordinator runs runTest(); its position is "run" until it has stored
\* false into keep_running_, then "sleep" (the 100 ms pause), then the calls
\* shutdown(), clear() and size() as in the sequence of runTest().
\* ---------------------------------------------------------------------------

Coordinator == NumThreads

RunnerWriters == Writers \ {Coordinator}

RunnerReaders == Readers \ {Coordinator}

\* std::atomic<bool> keep_running_: true from construction until runTest()
\* stores false.
keep_running_ == op[Coordinator] = "run"

RunnerInit ==
  /\ max_size_ \in Capacities
  /\ queue_ = <<>>
  /\ is_active_ = TRUE
  /\ mutex_ = Free
  /\ not_full_ = {}
  /\ not_empty_ = {}
  /\ pc = [t \in Threads |-> "idle"]
  /\ op = [t \in Threads |-> IF t = Coordinator THEN "run" ELSE "loop"]
  /\ arg = [t \in Threads |-> NoItem]
  /\ last = [by |-> 0, op |-> "none", ret |-> "none", out |-> NoItem]
  /\ inserted = <<>>
  /\ removed = <<>>
  /\ discarded = <<>>

\* keep_running_.store(false): the writers and readers are told to stop.
StopRunning(t) ==
  /\ NoPending
  /\ t = Coordinator
  /\ pc[t] = "idle" /\ op[t] = "run"
  /\ op' = [op EXCEPT ![t] = "sleep"]
  /\ UNCHANGED <<max_size_, queue_, is_active_, mutex_, not_full_,
                 not_empty_, pc, arg, last, inserted, removed, discarded>>

\* Where the outcome of a call takes a task: ShutdownException ends
\* writerTask and readerTask; a failed tryAdd is followed by waitAdd; a
\* reader goes back to its loop test whether or not it got an item.
RunnerAfterCall ==
  IF last.ret = "throw" THEN "done"
  ELSE CASE last.op = "tryAdd" ->
              IF last.ret = "true" THEN "loop" ELSE "retry"
         [] last.op = "waitAdd" -> "loop"
         [] last.op = "tryRemove" -> "loop"
         [] last.op = "shutdown" -> "join"
         [] last.op = "clear" -> "check"
         [] last.op = "size" -> "done"

RunnerResume(t) ==
  /\ Pending(t)
  /\ op' = [op EXCEPT ![t] = RunnerAfterCall]
  /\ UNCHANGED <<max_size_, queue_, is_active_, mutex_, not_full_,
                 not_empty_, pc, arg, last, inserted, removed, discarded>>

\* Every writerTask and readerTask has returned: future.get() returns.
RunnerTasksDone ==
  \A t \in Threads \ {Coordinator} : pc[t] = "idle" /\ op[t] = "done"

\* The next call of thread t: writers and readers call only after having
\* read keep_running_ as true; future.get() of every task comes before
\* clear().
RunnerCall(t) ==
  /\ NoPending
  /\ IF t = Coordinator
       THEN \/ op[t] = "sleep" /\ Lock(t, "shutdown", NoItem)
            \/ op[t] = "join" /\ RunnerTasksDone /\ Lock(t, "clear", NoItem)
            \/ op[t] = "check" /\ Lock(t, "size", NoItem)
     ELSE IF t \in RunnerWriters
       THEN \/ op[t] = "loop" /\ keep_running_
               /\ Lock(t, "tryAdd", WriterItem(t))
            \/ op[t] = "retry" /\ Lock(t, "waitAdd", WriterItem(t))
     ELSE op[t] = "loop" /\ keep_running_ /\ Lock(t, "tryRemove", NoItem)

\* A task returns: a reader when it reads keep_running_ as false, a writer
\* when it reads keep_running_ as false or has made its attempts (their
\* number is left open; it is at most MaxInserts for all writers together).
TaskEnds(t) ==
  /\ NoPending
  /\ t # Coordinator
  /\ pc[t] = "idle"
  /\ \/ op[t] = "loop" /\ (t \in RunnerWriters \/ ~keep_running_)
     \/ /\ op[t] = "retry"
        /\ Len(inserted) + Cardinality(InFlightAdds) >= MaxInserts
  /\ op' = [op EXCEPT ![t] = "done"]
  /\ UNCHANGED <<max_size_, queue_, is_active_, mutex_, not_full_,
                 not_empty_, pc, arg, last, inserted, removed, discarded>>

RunnerNext ==
  \/ \E t \in Threads : RunnerResume(t)
  \/ \E t \in Threads : StopRunning(t)
  \/ \E t \in Threads : RunnerCall(t)
  \/ \E t \in Threads : TaskEnds(t)
  \/ \E t \in Threads : tryAdd(t)
  \/ \E t \in Threads : waitAdd(t)
  \/ \E t \in Threads : tryRemove(t)
  \/ \E t \in Threads : shutdown(t)
  \/ \E t \in Threads : clear(t)
  \/ \E t \in Threads : size(t)
  \/ \E t \in Threads : NoPending /\ SpuriousWakeup(t)
  \/ \E t \in Threads : NoPending /\ Reacquire(t)

RunnerSpec == RunnerInit /\ [][RunnerNext]_vars

\* The sums of the values returned by the writer tasks and by the reader
\* tasks, once every task has returned: a writer counts an item exactly when
\* its tryAdd or waitAdd has stored it, a reader exactly when its tryRemove
\* has taken one.
items_written == Len(inserted)

items_read == Len(removed)

\* runTest() has returned its results.
RunnerOver == pc[Coordinator] = "idle" /\ op[Coordinator] = "done"

\* C24: at the end of the run every item written has been read:
\* items_read = items_written and the final clear() discarded nothing.
CompleteConsumption ==
  RunnerOver => items_read = items_written /\ discarded = <<>>

\* ---------------------------------------------------------------------------
\* One producer that only calls waitAdd and one consumer that only calls
\* waitRemove, on a queue that nobody shuts down.
\* ---------------------------------------------------------------------------
PairNext ==
  \/ \E x \in Items : Lock(Producer, "waitAdd", x)
  \/ Lock(Consumer, "waitRemove", NoItem)
  \/ waitAdd(Producer)
  \/ waitRemove(Consumer)
  \/ \E t \in {Producer, Consumer} : SpuriousWakeup(t)
  \/ \E t \in {Producer, Consumer} : Reacquire(t)

\* A thread inside its critical section runs on, and a woken thread gets the
\* mutex when it is free again and again.  Nobody is obliged to call.
PairFairness ==
  /\ WF_vars(waitAdd(Producer) \/ waitRemove(Consumer))
  /\ SF_vars(Reacquire(Producer))
  /\ SF_vars(Reacquire(Consumer))

PairSpec == Init /\ [][PairNext]_vars /\ PairFairness

\* C31: the producer and the consumer are never both in a wait set; when the
\* producer's waitAdd returns while the consumer is suspended, that step
\* takes the consumer out of the wait set of not_empty_, and when the
\* consumer's waitRemove returns while the producer is suspended, that step
\* takes the producer out of the wait set of not_full_; the woken thread then
\* returns from its call.
PairNeverDeadlocks ==
  /\ [](~(Producer \in not_full_ /\ Consumer \in not_empty_))
  /\ [][/\ (Returns(Producer) /\ Consumer \in not_empty_) =>
             /\ Consumer \notin not_empty_'
             /\ pc'[Consumer] = "woken"
        /\ (Returns(Consumer) /\ Producer \in not_full_) =>
             /\ Producer \notin not_full_'
             /\ pc'[Producer] = "woken"]_vars
  /\ (Consumer \in not_empty_ /\ pc[Producer] = "body")
       ~> (pc[Consumer] = "idle")
  /\ (Producer \in not_full_ /\ pc[Consumer] = "body")
       ~> (pc[Producer] = "idle")

\* The producer is suspended on the full buffer while the consumer is inside
\* waitRemove, about to take an item.
PairNeverDeadlocksWitness ==
  /\ Producer \in not_full_
  /\ Len(queue_) = max_size_
  /\ pc[Consumer] = "body" /\ op[Consumer] = "waitRemove"
  /\ removed # <<>>

\* ---------------------------------------------------------------------------
\* The legacy variant (ThreadSafeContainer.cpp): add and remove first run
\* throwOnShutdown(), a critical section of its own, then lock the mutex
\* again and wait.  The members are mtx, notFull, notEmpty, maxSize, fifo and
\* inUse.  A thread inside throwOnShutdown() is at "entry", between the two
\* critical sections at "checked".
\* ---------------------------------------------------------------------------
LegacyOps == {"add", "remove"}

Legacy_InFlightAdds == {u \in Threads : op[u] = "add"}

\* Thread t calls add(x) or remove(): it enters throwOnShutdown() and gets
\* the mutex.  MaxInserts caps the number of add calls that may still push.
Legacy_Call(t, o, x) ==
  /\ pc[t] = "idle"
  /\ MutexAvailable
  /\ o \in LegacyOps
  /\ IF o = "add"
       THEN /\ x \in PlainItems
            /\ Len(inserted) + Cardinality(Legacy_InFlightAdds) < MaxInserts
       ELSE x = NoItem
  /\ pc' = [pc EXCEPT ![t] = "entry"]
  /\ op' = [op EXCEPT ![t] = o]
  /\ arg' = [arg EXCEPT ![t] = x]
  /\ mutex_' = t
  /\ UNCHANGED <<max_size_, queue_, is_active_, not_full_, not_empty_, last,
                 inserted, removed, discarded>>

\* as Legacy_throwOnShutdown, but without the test of inUse
Legacy_throwOnShutdownNever(t) ==
  /\ pc[t] = "entry"
  /\ pc' = [pc EXCEPT ![t] = "checked"]
  /\ mutex_' = Free
  /\ UNCHANGED <<max_size_, queue_, is_active_, not_full_, not_empty_, op,
                 arg, last, inserted, removed, discarded>>

\* throwOnShutdown(): if (!inUse) throw shutExc; the lock is released either
\* way.
Legacy_throwOnShutdown(t) ==
  /\ pc[t] = "entry"
  /\ IF ~is_active_ THEN Throw(t)
     ELSE /\ pc' = [pc EXCEPT ![t] = "checked"]
          /\ mutex_' = Free
          /\ UNCHANGED <<max_size_, queue_, is_active_, not_full_,
                         not_empty_, op, arg, last, inserted, removed,
                         discarded>>

\* std::unique_lock<std::mutex> lock{mtx} of add and remove, after
\* throwOnShutdown() has returned.
Legacy_relock(t) ==
  /\ pc[t] = "checked"
  /\ MutexAvailable
  /\ pc' = [pc EXCEPT ![t] = "body"]
  /\ mutex_' = t
  /\ UNCHANGED <<max_size_, queue_, is_active_, not_full_, not_empty_, op,
                 arg, last, inserted, removed, discarded>>

\* add, from the wait on: the predicate is !((fifo.size() == maxSize) &&
\* inUse).
Legacy_add(t) ==
  /\ pc[t] = "body" /\ op[t] = "add"
  /\ IF Len(queue_) = max_size_ /\ is_active_
       THEN /\ not_full_' = not_full_ \cup {t}
            /\ pc' = [pc EXCEPT ![t] = "waiting"]
            /\ mutex_' = WaitUnlocked(t)
            /\ UNCHANGED <<max_size_, queue_, is_active_, not_empty_, op, arg,
                           last, inserted, removed, discarded>>
     ELSE IF ~is_active_
       THEN /\ \E W \in TSC_NotifyFullShutDown :
                 /\ not_full_' = not_full_ \ W
                 /\ Return(t, W, "false", NoItem)
            /\ UNCHANGED <<max_size_, queue_, is_active_, not_empty_,
                           inserted, removed, discarded>>
     ELSE /\ queue_' = Push(queue_, arg[t])
          /\ inserted' = Append(inserted, arg[t])
          /\ \E W \in TSC_NotifyAfterPush(queue_') :
               /\ not_empty_' = not_empty_ \ W
               /\ Return(t, W, "true", NoItem)
          /\ UNCHANGED <<max_size_, is_active_, not_full_, removed,
                         discarded>>

\* remove, from the wait on: the predicate is !(fifo.empty() && inUse).
Legacy_remove(t) ==
  /\ pc[t] = "body" /\ op[t] = "remove"
  /\ IF queue_ = <<>> /\ is_active_
       THEN /\ not_empty_' = not_empty_ \cup {t}
            /\ pc' = [pc EXCEPT ![t] = "waiting"]
            /\ mutex_' = WaitUnlocked(t)
            /\ UNCHANGED <<max_size_, queue_, is_active_, not_full_, op, arg,
                           last, inserted, removed, discarded>>
     ELSE IF ~is_active_
       THEN /\ \E W \in TSC_NotifyEmptyShutDown :
                 /\ not_empty_' = not_empty_ \ W
                 /\ Return(t, W, "false", NoItem)
            /\ UNCHANGED <<max_size_, queue_, is_active_, not_full_,
                           inserted, removed, discarded>>
     ELSE /\ queue_' = Pop(queue_)
          /\ removed' = Append(removed, Front(queue_))
          /\ \E W \in TSC_NotifyAfterPop(queue_') :
               /\ not_full_' = not_full_ \ W
               /\ Return(t, W, "true", Front(queue_))
          /\ UNCHANGED <<max_size_, is_active_, not_empty_, inserted,
                         discarded>>

\* shutdown(): inUse = false; notEmpty.notify_all(); notFull.notify_all().
Legacy_shutdown(t) ==
  /\ pc[t] = "body" /\ op[t] = "shutdown"
  /\ is_active_' = FALSE
  /\ \E WE \in NotifyAll(not_empty_) : \E WF \in NotifyAll(not_full_) :
       /\ not_empty_' = not_empty_ \ WE
       /\ not_full_' = not_full_ \ WF
       /\ Return(t, WE \cup WF, "void", NoItem)
  /\ UNCHANGED <<max_size_, queue_, inserted, removed, discarded>>

\* Any thread may call add, remove and shutdown.
LegacyNext ==
  \/ \E t \in Threads : \E o \in LegacyOps : \E x \in PlainItems \cup {NoItem} :
       Legacy_Call(t, o, x)
  \/ \E t \in Threads : Lock(t, "shutdown", NoItem)
  \/ \E t \in Threads : Legacy_throwOnShutdown(t)
  \/ \E t \in Threads : Legacy_relock(t)
  \/ \E t \in Threads : Legacy_add(t)
  \/ \E t \in Threads : Legacy_remove(t)
  \/ \E t \in Threads : Legacy_shutdown(t)
  \/ \E t \in Threads : SpuriousWakeup(t)
  \/ \E t \in Threads : Reacquire(t)

LegacySpec == Init /\ [][LegacyNext]_vars

\* t comes back from its call, normally or by an exception.
Legacy_Returns(t) == pc[t] # "idle" /\ pc'[t] = "idle"

\* C32: add returns true exactly when it has appended its item and remove
\* returns true exactly when it has popped the front item and handed it out;
\* a call throws exactly when its entry check finds the queue shut down, a
\* call that has passed the entry check and comes back after shutdown returns
\* false, and no step changes the buffer once inUse is false.
LegacyResults ==
  [][/\ \A t \in Threads :
          /\ (Legacy_Returns(t) /\ op[t] = "add") =>
               /\ last'.ret = "true" <=> queue_' = Append(queue_, arg[t])
               /\ last'.ret # "true" => queue_' = queue_
          /\ (Legacy_Returns(t) /\ op[t] = "remove") =>
               /\ last'.ret = "true" <=>
                    /\ queue_ # <<>>
                    /\ queue_' = Tail(queue_)
                    /\ last'.out = Head(queue_)
               /\ last'.ret # "true" => queue_' = queue_
          /\ (Legacy_Returns(t) /\ op[t] \in LegacyOps) =>
               /\ last'.by = t /\ last'.op = op[t]
               /\ last'.ret \in {"true", "false", "throw"}
               /\ last'.ret = "throw" <=> (pc[t] = "entry" /\ ~is_active_)
               /\ last'.ret = "false" <=> (pc[t] = "body" /\ ~is_active_)
          /\ (pc[t] = "entry" /\ pc'[t] # "entry" /\ ~is_active_) =>
               pc'[t] = "idle"
     /\ ~is_active_ => queue_' = queue_
    ]_vars

\* An add that was suspended on the full buffer when shutdown() came has
\* returned false, and before that a remove had come back with an item.
LegacyResultsWitness ==
  /\ last.op = "add" /\ last.ret = "false"
  /\ Len(queue_) = max_size_
  /\ removed # <<>>
  /\ \E t \in Threads : pc[t] = "entry" /\ op[t] = "remove"
====
